---- MODULE Spec2Model ----
(***************************************************************************)
(* Model of cmd/agent/app/options/options.go: the configuration record of  *)
(* the proxy agent (GrpcProxyAgentOptions), its construction, flag         *)
(* registration and parsing, validation, identifier decoding and the       *)
(* projection to the client-set configuration.                             *)
(*                                                                         *)
(* Text that the code inspects byte by byte (host names, the encoded       *)
(* identifier list) is a sequence of one-character strings; text that is   *)
(* only compared or copied (paths, IDs, enumerations) is a TLA+ string.    *)
(* Durations are in milliseconds.                                          *)
(***************************************************************************)
EXTENDS Integers, Sequences, FiniteSets, TLC

VARIABLES
    env,         \* value of the PROXY_AGENT_ID environment variable ("" = unset or empty)
    fs,          \* the host filesystem: what os.Stat reports for each path
    o,           \* the GrpcProxyAgentOptions record
    registered,  \* a FlagSet returned by Flags() is bound to the fields of o
    flagID,      \* the agent-id flag last parsed into the record, NoFlag if none was
    untouched,   \* no field of o was assigned or parsed since construction
    nextUUID,    \* number of identifiers the uuid generator has handed out
    built,       \* one entry per construction: the environment value and the resulting AgentID
    ret          \* the call that returned last on the record as it is, and its result

vars == <<env, fs, o, registered, flagID, untouched, nextUUID, built, ret>>

----------------------------------------------------------------------------
(* Bounds of the model *)

\* a reachable world differs from the freshly constructed one in at most
\* MaxEdits places (fields of the record, files of the filesystem)
MaxEdits == 2

\* number of constructions of a record in one run
MaxBuilds == 2

----------------------------------------------------------------------------
(* Text helpers *)

Second == 1000
Hour == 3600 * Second

Contains(s, c) == \E i \in 1..Len(s) : s[i] = c

\* strings.Cut(s, sep): index of the first sep, 0 if there is none
IndexOf(s, c) ==
    IF Contains(s, c) THEN CHOOSE i \in 1..Len(s) : s[i] = c /\ \A j \in 1..(i-1) : s[j] # c
    ELSE 0

Before(s, c) == IF IndexOf(s, c) = 0 THEN s ELSE SubSeq(s, 1, IndexOf(s, c) - 1)
After(s, c) == IF IndexOf(s, c) = 0 THEN <<>> ELSE SubSeq(s, IndexOf(s, c) + 1, Len(s))

Digit(d) == <<"0", "1", "2", "3", "4", "5", "6", "7", "8", "9">>[d + 1]

RECURSIVE Digits(_)
Digits(n) == IF n < 10 THEN <<Digit(n)>> ELSE Digits(n \div 10) \o <<Digit(n % 10)>>

\* strconv.Itoa
Itoa(n) == IF n < 0 THEN <<"-">> \o Digits(-n) ELSE Digits(n)

----------------------------------------------------------------------------
(* net/url: QueryUnescape and ParseQuery, as called by validateAgentIdentifiers *)

HexDigits == <<"0", "1", "2", "3", "4", "5", "6", "7", "8", "9",
               "a", "b", "c", "d", "e", "f", "A", "B", "C", "D", "E", "F">>

IsHex(c) == \E i \in 1..Len(HexDigits) : HexDigits[i] = c

\* unhex: the value of a hexadecimal digit
Unhex(c) ==
    LET i == CHOOSE j \in 1..Len(HexDigits) : HexDigits[j] = c
    IN  IF i <= 16 THEN i - 1 ELSE i - 7

Digits09 == <<"0", "1", "2", "3", "4", "5", "6", "7", "8", "9">>

Upper == <<"A", "B", "C", "D", "E", "F", "G", "H", "I", "J", "K", "L", "M",
           "N", "O", "P", "Q", "R", "S", "T", "U", "V", "W", "X", "Y", "Z">>

Lower == <<"a", "b", "c", "d", "e", "f", "g", "h", "i", "j", "k", "l", "m",
           "n", "o", "p", "q", "r", "s", "t", "u", "v", "w", "x", "y", "z">>

\* the character with the given byte value (ASCII); a byte that is no letter,
\* digit or punctuation of the identifier syntax is a token of its own
Chr(code) ==
    IF code >= 48 /\ code <= 57 THEN Digits09[code - 47]
    ELSE IF code >= 65 /\ code <= 90 THEN Upper[code - 64]
    ELSE IF code >= 97 /\ code <= 122 THEN Lower[code - 96]
    ELSE CASE code = 32 -> " "
           [] code = 37 -> "%"
           [] code = 38 -> "&"
           [] code = 43 -> "+"
           [] code = 45 -> "-"
           [] code = 46 -> "."
           [] code = 47 -> "/"
           [] code = 58 -> ":"
           [] code = 61 -> "="
           [] OTHER -> "byte" \o ToString(code)

\* every % is followed by two hexadecimal digits
ValidEscapes(s) ==
    \A i \in 1..Len(s) :
        s[i] = "%" => i + 2 <= Len(s) /\ IsHex(s[i + 1]) /\ IsHex(s[i + 2])

RECURSIVE Unescaped(_)
Unescaped(s) ==
    IF s = <<>> THEN <<>>
    ELSE IF Head(s) = "%"
         THEN <<Chr(16 * Unhex(s[2]) + Unhex(s[3]))>> \o Unescaped(SubSeq(s, 4, Len(s)))
    ELSE IF Head(s) = "+" THEN <<" ">> \o Unescaped(Tail(s))
    ELSE <<Head(s)>> \o Unescaped(Tail(s))

\* url.QueryUnescape
QueryUnescape(s) ==
    IF ValidEscapes(s) THEN [ok |-> TRUE, text |-> Unescaped(s)]
    ELSE [ok |-> FALSE, text |-> <<>>]

\* the pieces of the query between the & separators
RECURSIVE Segments(_)
Segments(query) ==
    IF query = <<>> THEN <<>>
    ELSE <<Before(query, "&")>> \o Segments(After(query, "&"))

\* a piece that ParseQuery rejects
SegmentFails(seg) ==
    \/ Contains(seg, ";")
    \/ /\ seg # <<>>
       /\ \/ ~QueryUnescape(Before(seg, "=")).ok
          \/ ~QueryUnescape(After(seg, "=")).ok

\* a piece that ParseQuery adds to the map
SegmentAdds(seg) == seg # <<>> /\ ~SegmentFails(seg)

SegmentKey(seg) == QueryUnescape(Before(seg, "=")).text
SegmentValue(seg) == QueryUnescape(After(seg, "=")).text

\* the values of key k, in the order of the query
RECURSIVE ValuesOf(_, _)
ValuesOf(segs, k) ==
    IF segs = <<>> THEN <<>>
    ELSE (IF SegmentAdds(Head(segs)) /\ SegmentKey(Head(segs)) = k
          THEN <<SegmentValue(Head(segs))>> ELSE <<>>) \o ValuesOf(Tail(segs), k)

\* url.ParseQuery: the map of the pieces that parse, and whether any piece failed
ParseQuery(query) ==
    LET segs == Segments(query)
        idx == 1..Len(segs)
        keys == {SegmentKey(segs[i]) : i \in {j \in idx : SegmentAdds(segs[j])}}
    IN  [values |-> [k \in keys |-> ValuesOf(segs, k)],
         err |-> \E i \in idx : SegmentFails(segs[i])]

----------------------------------------------------------------------------
(* The configuration record *)

Fields == {"AgentCert", "AgentKey", "CaCert", "ProxyServerHost", "ProxyServerPort",
           "AlpnProtos", "HealthServerHost", "HealthServerPort", "AdminBindAddress",
           "AdminServerPort", "EnableProfiling", "EnableContentionProfiling",
           "AgentID", "AgentIdentifiers", "SyncInterval", "ProbeInterval",
           "SyncIntervalCap", "KeepaliveTime", "ServiceAccountTokenPath",
           "WarnOnChannelLimit", "SyncForever", "XfrChannelSize", "CountServerLeases",
           "LeaseNamespace", "LeaseLabel", "ServerCountSource", "KubeconfigPath",
           "APIContentType"}

\* the default of the xfr-channel-size flag
XfrChannelSizeFlagDefault == 150

\* uuid.New().String(): the n-th identifier of a generator that never repeats
uuidNew(n) == "uuid-" \o ToString(n)

defaultAgentIDCached(id, n) == IF id # "" THEN id ELSE uuidNew(0)

\* defaultAgentID, with the value of PROXY_AGENT_ID and the state of the generator
defaultAgentID(id, n) == IF id # "" THEN id ELSE uuidNew(n)

NewGrpcProxyAgentOptionsSwappedIntervals(agentID) ==
    [AgentCert |-> "",
     AgentKey |-> "",
     CaCert |-> "",
     ProxyServerHost |-> <<"1", "2", "7", ".", "0", ".", "0", ".", "1">>,
     ProxyServerPort |-> 8091,
     AlpnProtos |-> <<>>,
     HealthServerHost |-> "",
     HealthServerPort |-> 8093,
     AdminBindAddress |-> "127.0.0.1",
     AdminServerPort |-> 8094,
     EnableProfiling |-> FALSE,
     EnableContentionProfiling |-> FALSE,
     AgentID |-> agentID,
     AgentIdentifiers |-> <<>>,
     SyncInterval |-> 10 * Second,
     ProbeInterval |-> 1 * Second,
     SyncIntervalCap |-> 1 * Second,
     KeepaliveTime |-> 1 * Hour,
     ServiceAccountTokenPath |-> "",
     WarnOnChannelLimit |-> FALSE,
     SyncForever |-> FALSE,
     XfrChannelSize |-> 150,
     CountServerLeases |-> FALSE,
     LeaseNamespace |-> "kube-system",
     LeaseLabel |-> "k8s-app=konnectivity-server",
     ServerCountSource |-> "default",
     KubeconfigPath |-> "",
     APIContentType |-> "application/vnd.kubernetes.protobuf"]

\* NewGrpcProxyAgentOptions, given what defaultAgentID() returned
NewGrpcProxyAgentOptions(agentID) ==
    [AgentCert |-> "",
     AgentKey |-> "",
     CaCert |-> "",
     ProxyServerHost |-> <<"1", "2", "7", ".", "0", ".", "0", ".", "1">>,
     ProxyServerPort |-> 8091,
     AlpnProtos |-> <<>>,
     HealthServerHost |-> "",
     HealthServerPort |-> 8093,
     AdminBindAddress |-> "127.0.0.1",
     AdminServerPort |-> 8094,
     EnableProfiling |-> FALSE,
     EnableContentionProfiling |-> FALSE,
     AgentID |-> agentID,
     AgentIdentifiers |-> <<>>,
     SyncInterval |-> 1 * Second,
     ProbeInterval |-> 1 * Second,
     SyncIntervalCap |-> 10 * Second,
     KeepaliveTime |-> 1 * Hour,
     ServiceAccountTokenPath |-> "",
     WarnOnChannelLimit |-> FALSE,
     SyncForever |-> FALSE,
     XfrChannelSize |-> 150,
     CountServerLeases |-> FALSE,
     LeaseNamespace |-> "kube-system",
     LeaseLabel |-> "k8s-app=konnectivity-server",
     ServerCountSource |-> "default",
     KubeconfigPath |-> "",
     APIContentType |-> "application/vnd.kubernetes.protobuf"]

----------------------------------------------------------------------------
(* Inputs: the values a caller or a flag gives to a field, other than its default *)

Paths == {"/a", "/b"}

\* what os.Stat reports: the file is there, it is not there (ENOENT), or
\* the call fails for another reason (EACCES)
StatResults == {"ok", "ENOENT", "EACCES"}

IdTwoHosts == <<"h", "o", "s", "t", "=", "a", "&", "h", "o", "s", "t", "=", "b">>
IdAllTypes == <<"i", "p", "v", "4", "=", "1", "&", "i", "p", "v", "6", "=", "2", "&", "c", "i", "d", "r", "=", "3", "&", "h", "o", "s", "t", "=", "4", "&", "d", "e", "f", "a", "u", "l", "t", "-", "r", "o", "u", "t", "e", "=", "5">>
\* h%6Fst=a: the key decodes to host
IdEscapedKey == <<"h", "%", "6", "F", "s", "t", "=", "a">>
IdFoo == <<"f", "o", "o", "=", "b", "a", "r">>
\* two unrecognized keys
IdFooBar == <<"f", "o", "o", "=", "1", "&", "b", "a", "r", "=", "2">>
\* a recognized key, then two that are not
IdMixed == <<"h", "o", "s", "t", "=", "a", "&", "z", "e", "d", "=", "1", "&", "&", "f", "o", "o", "=", "2">>
\* an unrecognized key and a piece with a malformed escape
IdMalformed == <<"f", "o", "o", "=", "1", "&", "h", "o", "s", "t", "=", "%", "4">>

IdentifierInputs == {IdTwoHosts, IdAllTypes, IdEscapedKey, IdFoo, IdFooBar, IdMixed,
                     IdMalformed}

HostIPv6 == <<":", ":", "1">>
HostName == <<"e", "x", "a", "m", "p", "l", "e", ".", "c", "o", "m">>

Alternatives(f) ==
    CASE f = "AgentCert" -> {"/b"}
      [] f = "AgentKey" -> {"/a"}
      [] f = "CaCert" -> {"/a"}
      [] f = "ProxyServerHost" -> {HostIPv6, HostName}
      [] f = "ProxyServerPort" -> {-1, 443}
      [] f = "AlpnProtos" -> {<<"h2">>}
      [] f = "HealthServerHost" -> {"0.0.0.0"}
      [] f = "HealthServerPort" -> {0}
      [] f = "AdminBindAddress" -> {""}
      [] f = "AdminServerPort" -> {-1}
      [] f = "EnableProfiling" -> {TRUE}
      [] f = "EnableContentionProfiling" -> {TRUE}
      [] f = "AgentID" -> {"flag-id"}
      [] f = "AgentIdentifiers" -> IdentifierInputs
      [] f = "SyncInterval" -> {11 * Second}
      [] f = "ProbeInterval" -> {5 * Second}
      [] f = "SyncIntervalCap" -> {1 * Second}
      [] f = "KeepaliveTime" -> {0}
      [] f = "ServiceAccountTokenPath" -> {"/b"}
      [] f = "WarnOnChannelLimit" -> {TRUE}
      [] f = "SyncForever" -> {TRUE}
      [] f = "XfrChannelSize" -> {0, 1}
      [] f = "CountServerLeases" -> {TRUE}
      [] f = "LeaseNamespace" -> {"default"}
      [] f = "LeaseLabel" -> {"not a selector"}
      [] f = "ServerCountSource" -> {"", "max", "min"}
      [] f = "KubeconfigPath" -> {"/a"}
      [] f = "APIContentType" -> {"application/json"}

\* the record as constructed, but for its AgentID
DefaultRecord == NewGrpcProxyAgentOptions("")

\* field f of the record no longer has the value it was constructed with
Edited(rec, f) ==
    IF f = "AgentID" THEN rec[f] \in Alternatives(f) ELSE rec[f] # DefaultRecord[f]

\* the places in which the world differs from a freshly constructed one
Edits(rec, files) ==
    Cardinality({f \in Fields : Edited(rec, f)})
        + Cardinality({p \in Paths : files[p] # "ok"})

----------------------------------------------------------------------------
(* Collaborators of Validate *)

\* os.Stat(path) on the filesystem files
Stat(files, path) == files[path]

\* os.IsNotExist(err) for the error of os.Stat
IsNotExist(st) == st = "ENOENT"

\* header.IPv4, header.IPv6, header.CIDR, header.Host, header.DefaultRoute
IdentifierTypes == {<<"i", "p", "v", "4">>, <<"i", "p", "v", "6">>, <<"c", "i", "d", "r">>,
                    <<"h", "o", "s", "t">>,
                    <<"d", "e", "f", "a", "u", "l", "t", "-", "r", "o", "u", "t", "e">>}

\* the label strings util.ParseLabels accepts
ParsableLabels == {"k8s-app=konnectivity-server"}

\* util.ParseLabels(label) returns an error
ParseLabelsFails(label) == label \notin ParsableLabels

----------------------------------------------------------------------------
(* Errors: the format string of the error, and the key it names if it names one *)

Nil == [type |-> "nil"]

Error(msg) == [type |-> "error", msg |-> msg, key |-> <<>>]

ErrorNaming(msg, key) == [type |-> "error", msg |-> msg, key |-> key]

\* fmt.Errorf("agent address is invalid: %v", err)
Wrapped(err) == [err EXCEPT !.msg = "agent address is invalid: " \o err.msg]

----------------------------------------------------------------------------
(* validateAgentIdentifiers *)

\* the errors validateAgentIdentifiers can return, Nil for none.  The loop
\* ranges over a Go map, whose iteration order is not specified: any of the
\* unrecognized keys can be the one it meets first.
validateAgentIdentifiers(agentIdentifiers) ==
    LET parsed == ParseQuery(agentIdentifiers)
        unknown == {k \in DOMAIN parsed.values : k \notin IdentifierTypes}
    IN  IF parsed.err THEN {Error("invalid URL escape")}
        ELSE IF unknown = {} THEN {Nil}
        ELSE {ErrorNaming("unknown address type: %s", k) : k \in unknown}

----------------------------------------------------------------------------
(* Validate: the conditions of its checks, in the order of the source *)

AgentKeyNotFound(rec, files) == IsNotExist(Stat(files, rec.AgentKey))

AgentCertUnpairedNever(rec) == FALSE

AgentCertUnpaired(rec) == rec.AgentCert = ""

AgentCertNotFound(rec, files) == IsNotExist(Stat(files, rec.AgentCert))

AgentKeyUnpaired(rec) == rec.AgentKey = ""

CaCertNotFound(rec, files) == IsNotExist(Stat(files, rec.CaCert))

SyncIntervalNotBelowCap(rec) == rec.SyncInterval >= rec.SyncIntervalCap

SyncIntervalAboveCap(rec) == rec.SyncInterval > rec.SyncIntervalCap

TokenPathNotFound(rec, files) == IsNotExist(Stat(files, rec.ServiceAccountTokenPath))

KubeconfigNotFound(rec, files) == IsNotExist(Stat(files, rec.KubeconfigPath))

BadServerCountSource(rec) ==
    rec.ServerCountSource # "default" /\ rec.ServerCountSource # "max"

\* the checks after the identifier decode
ValidateTail(rec, files) ==
    IF rec.KubeconfigPath # "" /\ KubeconfigNotFound(rec, files)
    THEN {Error("error checking KubeconfigPath %q, got %v")}
    ELSE IF rec.CountServerLeases /\ ParseLabelsFails(rec.LeaseLabel)
    THEN {Error("ParseLabels: invalid label")}
    ELSE IF rec.ServerCountSource # "" /\ BadServerCountSource(rec)
    THEN {Error("--server-count-source must be one of '', 'default', 'max', got %v")}
    ELSE {Nil}

\* the errors Validate can return for the record on the filesystem, Nil for none
Validate(rec, files) ==
    IF rec.AgentKey # "" /\ AgentKeyNotFound(rec, files)
    THEN {Error("error checking agent key %s, got %v")}
    ELSE IF rec.AgentKey # "" /\ AgentCertUnpaired(rec)
    THEN {Error("cannot have agent cert empty when agent key is set to \"%s\"")}
    ELSE IF rec.AgentCert # "" /\ AgentCertNotFound(rec, files)
    THEN {Error("error checking agent cert %s, got %v")}
    ELSE IF rec.AgentCert # "" /\ AgentKeyUnpaired(rec)
    THEN {Error("cannot have agent key empty when agent cert is set to \"%s\"")}
    ELSE IF rec.CaCert # "" /\ CaCertNotFound(rec, files)
    THEN {Error("error checking agent CA cert %s, got %v")}
    ELSE IF rec.ProxyServerPort <= 0
    THEN {Error("proxy server port %d must be greater than 0")}
    ELSE IF rec.HealthServerPort <= 0
    THEN {Error("health server port %d must be greater than 0")}
    ELSE IF rec.AdminServerPort <= 0
    THEN {Error("admin server port %d must be greater than 0")}
    ELSE IF rec.XfrChannelSize <= 0
    THEN {Error("channel size %d must be greater than 0")}
    ELSE IF rec.EnableContentionProfiling /\ ~rec.EnableProfiling
    THEN {Error("if --enable-contention-profiling is set, --enable-profiling must also be set")}
    ELSE IF SyncIntervalAboveCap(rec)
    THEN {Error("sync interval %v must be less than sync interval cap %v")}
    ELSE IF rec.ServiceAccountTokenPath # "" /\ TokenPathNotFound(rec, files)
    THEN {Error("error checking service account token path %s, got %v")}
    ELSE LET errs == validateAgentIdentifiers(rec.AgentIdentifiers)
         IN  IF Nil \in errs THEN ValidateTail(rec, files)
             ELSE {Wrapped(e) : e \in errs}

----------------------------------------------------------------------------
(* ClientSetConfig *)

JoinHostPortPlain(host, port) == host \o <<":">> \o port

\* net.JoinHostPort
JoinHostPort(host, port) ==
    IF Contains(host, ":") \/ Contains(host, "%")
    THEN <<"[">> \o host \o <<"]", ":">> \o port
    ELSE host \o <<":">> \o port

\* the agent.ClientSetConfig that ClientSetConfig(dialOptions...) returns
ClientSetConfig(rec, dialOptions) ==
    [Address |-> JoinHostPort(rec.ProxyServerHost, Itoa(rec.ProxyServerPort)),
     AgentID |-> rec.AgentID,
     AgentIdentifiers |-> rec.AgentIdentifiers,
     SyncInterval |-> rec.SyncInterval,
     ProbeInterval |-> rec.ProbeInterval,
     SyncIntervalCap |-> rec.SyncIntervalCap,
     DialOptions |-> dialOptions,
     ServiceAccountTokenPath |-> rec.ServiceAccountTokenPath,
     WarnOnChannelLimit |-> rec.WarnOnChannelLimit,
     SyncForever |-> rec.SyncForever,
     XfrChannelSize |-> rec.XfrChannelSize,
     ServerCountSource |-> rec.ServerCountSource]

----------------------------------------------------------------------------
(* Flags *)

\* the default each flag is registered with; registering a flag stores the
\* default in the field it is bound to
FlagDefault(rec, f) == IF f = "XfrChannelSize" THEN XfrChannelSizeFlagDefault ELSE rec[f]

\* the record after Flags() has registered every flag
AfterFlags(rec) == [f \in Fields |-> FlagDefault(rec, f)]

----------------------------------------------------------------------------
(* State machine *)

EnvValues == {"", "env-id"}

DialOptionInputs == {<<"WithTransportCredentials">>}

NoFlag == "<no flag>"

\* no call has returned since the record or the filesystem last changed
NoReturn == [call |-> "none"]

Constructed(id) ==
    /\ fs = [p \in Paths |-> "ok"]
    /\ o = NewGrpcProxyAgentOptions(defaultAgentID(id, 0))
    /\ registered = FALSE
    /\ flagID = NoFlag
    /\ untouched = TRUE
    /\ nextUUID = (IF id = "" THEN 1 ELSE 0)
    /\ built = <<[env |-> id, id |-> defaultAgentID(id, 0)]>>
    /\ ret = NoReturn

\* a record constructed with PROXY_AGENT_ID unset
Init == env = "" /\ Constructed(env)

\* a record constructed with PROXY_AGENT_ID unset or set
InitBuild == env \in EnvValues /\ Constructed(env)

\* NewGrpcProxyAgentOptions(): a new record replaces the one at hand
CallNew ==
    /\ Len(built) < MaxBuilds
    /\ o' = NewGrpcProxyAgentOptions(defaultAgentID(env, nextUUID))
    /\ nextUUID' = (IF env = "" THEN nextUUID + 1 ELSE nextUUID)
    /\ built' = Append(built, [env |-> env, id |-> defaultAgentID(env, nextUUID)])
    /\ registered' = FALSE
    /\ flagID' = NoFlag
    /\ untouched' = TRUE
    /\ ret' = NoReturn
    /\ UNCHANGED <<env, fs>>

\* the environment sets or clears PROXY_AGENT_ID
Setenv ==
    \E v \in EnvValues :
        /\ v # env
        /\ env' = v
        /\ UNCHANGED <<fs, o, registered, flagID, untouched, nextUUID, built, ret>>

\* the environment creates, removes or protects a file
FsChange ==
    \E p \in Paths, st \in StatResults :
        /\ st # fs[p]
        /\ fs[p] # "ok" \/ Edits(o, fs) < MaxEdits
        /\ fs' = [fs EXCEPT ![p] = st]
        /\ ret' = NoReturn
        /\ UNCHANGED <<env, o, registered, flagID, untouched, nextUUID, built>>

\* a caller assigns a field of the record it has constructed, before it
\* registers the flags
Assign ==
    \E f \in Fields :
        \E v \in Alternatives(f) :
            /\ ~registered
            /\ v # o[f]
            /\ Edited(o, f) \/ Edits(o, fs) < MaxEdits
            /\ o' = [o EXCEPT ![f] = v]
            /\ untouched' = FALSE
            /\ ret' = NoReturn
            /\ UNCHANGED <<env, fs, registered, flagID, nextUUID, built>>

\* o.Flags(): every flag is registered with its default
CallFlags ==
    /\ o' = AfterFlags(o)
    /\ registered' = TRUE
    /\ ret' = NoReturn
    /\ UNCHANGED <<env, fs, flagID, untouched, nextUUID, built>>

\* flags.Parse with the flag of field f supplied as v
Parse(f, v) ==
    /\ registered
    /\ v # o[f]
    /\ Edited(o, f) \/ Edits(o, fs) < MaxEdits
    /\ o' = [o EXCEPT ![f] = v]
    /\ flagID' = (IF f = "AgentID" THEN v ELSE flagID)
    /\ untouched' = FALSE
    /\ ret' = NoReturn
    /\ UNCHANGED <<env, fs, registered, nextUUID, built>>

CallParse == \E f \in Fields : \E v \in Alternatives(f) : Parse(f, v)

\* flags.Parse with --agent-id supplied
CallParseAgentID == \E v \in Alternatives("AgentID") : Parse("AgentID", v)

\* o.Validate()
CallValidate ==
    \E e \in Validate(o, fs) :
        /\ ret' = [call |-> "Validate", err |-> e]
        /\ UNCHANGED <<env, fs, o, registered, flagID, untouched, nextUUID, built>>

\* o.ClientSetConfig(dialOptions...)
CallClientSetConfig ==
    \E d \in DialOptionInputs :
        /\ ret' = [call |-> "ClientSetConfig", config |-> ClientSetConfig(o, d)]
        /\ UNCHANGED <<env, fs, o, registered, flagID, untouched, nextUUID, built>>

\* one record, configured, validated and projected
Next ==
    \/ FsChange
    \/ Assign
    \/ CallFlags
    \/ CallParse
    \/ CallValidate
    \/ CallClientSetConfig

Spec == Init /\ [][Next]_vars

\* records constructed one after the other while the environment changes
NextBuild ==
    \/ CallNew
    \/ Setenv
    \/ FsChange
    \/ CallFlags
    \/ CallParseAgentID
    \/ CallValidate
    \/ CallClientSetConfig

SpecBuild == InitBuild /\ [][NextBuild]_vars

----------------------------------------------------------------------------
(* Vocabulary of the properties *)

Validated == ret.call = "Validate"

Succeeded == Validated /\ ret.err = Nil

\* Validate failed with an error of one of the given format strings
FailedWith(msgs) == Validated /\ ret.err # Nil /\ ret.err.msg \in msgs

MissingPairedCredential ==
    {"cannot have agent cert empty when agent key is set to \"%s\"",
     "cannot have agent key empty when agent cert is set to \"%s\""}

UnknownIdentifierType == {"agent address is invalid: unknown address type: %s"}

PathFields == {"AgentKey", "AgentCert", "CaCert", "ServiceAccountTokenPath",
               "KubeconfigPath"}

NoPathSet == \A f \in PathFields : o[f] = ""

\* the identifier strings among the inputs that decode to recognized types only
AcceptedIdentifiers == {<<>>, IdTwoHosts, IdAllTypes, IdEscapedKey}

\* the first key of the query, in the order of the text, that is no identifier type
RECURSIVE FirstUnknownKey(_)
FirstUnknownKey(segs) ==
    IF SegmentAdds(Head(segs)) /\ SegmentKey(Head(segs)) \notin IdentifierTypes
    THEN SegmentKey(Head(segs))
    ELSE FirstUnknownKey(Tail(segs))

\* a well-formed query with at least one key that is no identifier type
HasUnknownKey(query) ==
    /\ ~ParseQuery(query).err
    /\ \E k \in DOMAIN ParseQuery(query).values : k \notin IdentifierTypes

\* the checks of Validate in the order the specification gives them, each
\* with the condition under which it is violated and the errors that report it
Violated(i) ==
    CASE i = 1 -> o.AgentKey # "" /\ fs[o.AgentKey] = "ENOENT"
      [] i = 2 -> o.AgentKey # "" /\ o.AgentCert = ""
      [] i = 3 -> o.AgentCert # "" /\ fs[o.AgentCert] = "ENOENT"
      [] i = 4 -> o.AgentCert # "" /\ o.AgentKey = ""
      [] i = 5 -> o.CaCert # "" /\ fs[o.CaCert] = "ENOENT"
      [] i = 6 -> o.ProxyServerPort <= 0
      [] i = 7 -> o.HealthServerPort <= 0
      [] i = 8 -> o.AdminServerPort <= 0
      [] i = 9 -> o.XfrChannelSize <= 0
      [] i = 10 -> o.EnableContentionProfiling /\ ~o.EnableProfiling
      [] i = 11 -> o.SyncInterval > o.SyncIntervalCap
      [] i = 12 -> o.ServiceAccountTokenPath # "" /\ fs[o.ServiceAccountTokenPath] = "ENOENT"
      [] i = 13 -> o.AgentIdentifiers \notin AcceptedIdentifiers
      [] i = 14 -> o.KubeconfigPath # "" /\ fs[o.KubeconfigPath] = "ENOENT"
      [] i = 15 -> o.CountServerLeases /\ o.LeaseLabel \notin ParsableLabels
      [] i = 16 -> o.ServerCountSource \notin {"", "default", "max"}

Reports(i) ==
    CASE i = 1 -> {"error checking agent key %s, got %v"}
      [] i = 2 -> {"cannot have agent cert empty when agent key is set to \"%s\""}
      [] i = 3 -> {"error checking agent cert %s, got %v"}
      [] i = 4 -> {"cannot have agent key empty when agent cert is set to \"%s\""}
      [] i = 5 -> {"error checking agent CA cert %s, got %v"}
      [] i = 6 -> {"proxy server port %d must be greater than 0"}
      [] i = 7 -> {"health server port %d must be greater than 0"}
      [] i = 8 -> {"admin server port %d must be greater than 0"}
      [] i = 9 -> {"channel size %d must be greater than 0"}
      [] i = 10 -> {"if --enable-contention-profiling is set, --enable-profiling must also be set"}
      [] i = 11 -> {"sync interval %v must be less than sync interval cap %v"}
      [] i = 12 -> {"error checking service account token path %s, got %v"}
      [] i = 13 -> {"agent address is invalid: unknown address type: %s",
                    "agent address is invalid: invalid URL escape"}
      [] i = 14 -> {"error checking KubeconfigPath %q, got %v"}
      [] i = 15 -> {"ParseLabels: invalid label"}
      [] i = 16 -> {"--server-count-source must be one of '', 'default', 'max', got %v"}

ViolatedChecks == {i \in 1..16 : Violated(i)}

Earliest == CHOOSE i \in ViolatedChecks : \A j \in ViolatedChecks : i <= j

\* Validate reports the earliest violated check, and nothing if none is violated
ReportsEarliest ==
    Validated =>
        IF ViolatedChecks = {} THEN ret.err = Nil ELSE FailedWith(Reports(Earliest))

----------------------------------------------------------------------------
(* Properties *)

\* C1 (order of the checks alone): whenever Validate has returned, its error is
\* the one of the earliest violated check in the order key, cert, CA cert,
\* ports, channel size, profiling, intervals, token path, identifiers,
\* kubeconfig, lease label, server-count-source; it succeeds if no check is violated.
C1_EarliestViolatedCheck == ReportsEarliest

C1_TwoViolations ==
    /\ Cardinality(ViolatedChecks) >= 2
    /\ FailedWith(Reports(Earliest))

\* C1: Validate reports the earliest violated check of the fixed order, and
\* validating the same record on the same filesystem again returns the same error.
C1_OrderedAndRepeatable ==
    [][/\ ReportsEarliest'
       /\ (Validated /\ Validated') => ret'.err = ret.err]_vars

\* C2 as stated: when exactly one of agent key and agent cert is set, Validate
\* fails with the MissingPairedCredential error, whatever os.Stat reports for
\* the path that is set.
C2_UnpairedIsMissingPaired ==
    (Validated /\ (o.AgentKey = "") # (o.AgentCert = ""))
        => FailedWith(MissingPairedCredential)

\* C2 amended: when exactly one of agent key and agent cert is set, Validate
\* fails: with the error of the path that is set if os.Stat reports that it
\* does not exist, and with the MissingPairedCredential error otherwise.
C2_UnpairedFails ==
    /\ (Validated /\ o.AgentKey # "" /\ o.AgentCert = "") =>
           IF fs[o.AgentKey] = "ENOENT"
           THEN FailedWith({"error checking agent key %s, got %v"})
           ELSE FailedWith({"cannot have agent cert empty when agent key is set to \"%s\""})
    /\ (Validated /\ o.AgentCert # "" /\ o.AgentKey = "") =>
           IF fs[o.AgentCert] = "ENOENT"
           THEN FailedWith({"error checking agent cert %s, got %v"})
           ELSE FailedWith({"cannot have agent key empty when agent cert is set to \"%s\""})

C2_UnpairedKeyRejected ==
    /\ o.AgentKey # "" /\ o.AgentCert = ""
    /\ fs[o.AgentKey] = "EACCES"
    /\ FailedWith(MissingPairedCredential)

\* C3: whenever Validate succeeds, os.Stat succeeds on every path that is set
\* (agent key, agent cert, CA cert, token path, kubeconfig path).
C3_SuccessMeansPathsExist ==
    Succeeded => \A f \in PathFields : o[f] # "" => fs[o[f]] = "ok"

\* C4: with no path set, Validate succeeds exactly when the three ports and the
\* channel size are positive, contention profiling is off or profiling is on,
\* the sync interval is at most its cap, the identifiers decode to recognized
\* types only, lease counting is off or the label parses, and the
\* server-count-source is "", "default" or "max".
C4_ValidWithoutPaths ==
    (Validated /\ NoPathSet) =>
        (ret.err = Nil <=>
            /\ o.ProxyServerPort > 0
            /\ o.HealthServerPort > 0
            /\ o.AdminServerPort > 0
            /\ o.XfrChannelSize > 0
            /\ (~o.EnableContentionProfiling \/ o.EnableProfiling)
            /\ o.SyncInterval <= o.SyncIntervalCap
            /\ o.AgentIdentifiers \in AcceptedIdentifiers
            /\ (~o.CountServerLeases \/ o.LeaseLabel \in ParsableLabels)
            /\ o.ServerCountSource \in {"", "default", "max"})

C4_EqualIntervalsAccepted ==
    /\ Succeeded
    /\ NoPathSet
    /\ o.SyncInterval = o.SyncIntervalCap
    /\ o.AgentIdentifiers = IdEscapedKey

\* C5: a well-formed identifier string with a key outside ipv4, ipv6, cidr,
\* host, default-route is never accepted, and when Validate reports the
\* unknown type the key it names is the first such key of the string; the
\* empty string is accepted.
C5_FirstUnknownKeyNamed ==
    /\ (Validated /\ HasUnknownKey(o.AgentIdentifiers)) => ret.err # Nil
    /\ FailedWith(UnknownIdentifierType) =>
           /\ HasUnknownKey(o.AgentIdentifiers)
           /\ ret.err.key = FirstUnknownKey(Segments(o.AgentIdentifiers))
    /\ (Validated /\ o.AgentIdentifiers = <<>>) =>
           ~FailedWith(Reports(13))

\* C5 (what holds): the key named is one of the unrecognized keys of the string.
C5_SomeUnknownKeyNamed ==
    /\ (Validated /\ HasUnknownKey(o.AgentIdentifiers)) => ret.err # Nil
    /\ FailedWith(UnknownIdentifierType) =>
           /\ ret.err.key \in DOMAIN ParseQuery(o.AgentIdentifiers).values
           /\ ret.err.key \notin IdentifierTypes
    /\ (Validated /\ o.AgentIdentifiers = <<>>) =>
           ~FailedWith(Reports(13))

\* C6: a record constructed with PROXY_AGENT_ID set has that value as its
\* AgentID; records constructed with it unset or empty have generated IDs, no
\* two of them the same; and once the agent-id flag was parsed the AgentID
\* is the value of the flag, whatever the environment variable is.
C6_AgentIDPrecedence ==
    /\ \A i \in 1..Len(built) :
           IF built[i].env # "" THEN built[i].id = built[i].env
           ELSE built[i].id \notin EnvValues
    /\ \A i, j \in 1..Len(built) :
           (i # j /\ built[i].env = "" /\ built[j].env = "") => built[i].id # built[j].id
    /\ flagID = NoFlag => o.AgentID = built[Len(built)].id
    /\ flagID # NoFlag => o.AgentID = flagID

C6_TwoGeneratedThenFlag ==
    /\ Len(built) >= 2
    /\ built[1].env = "" /\ built[2].env = ""
    /\ env # ""
    /\ flagID # NoFlag
    /\ o.AgentID = "flag-id"

\* C7: Validate changes no field of the record, validating a valid record
\* again succeeds again, and validating the same record again returns the
\* same outcome of the identifier decode.
C7_NoSideEffectsIdempotent ==
    [][/\ Validated' => o' = o
       /\ (Succeeded /\ Validated') => Succeeded'
       /\ (Validated /\ Validated') => ret'.err = ret.err]_vars

\* C7 (what holds): Validate changes no field and success repeats.
C7_NoSideEffects ==
    [][/\ Validated' => (o' = o /\ fs' = fs /\ env' = env)
       /\ (Succeeded /\ Validated') => Succeeded']_vars

\* the address the client configuration must carry
PortText(port) ==
    CASE port = 8091 -> <<"8", "0", "9", "1">>
      [] port = 443 -> <<"4", "4", "3">>
      [] port = -1 -> <<"-", "1">>

ExpectedAddress ==
    (IF o.ProxyServerHost = HostIPv6 THEN <<"[", ":", ":", "1", "]">> ELSE o.ProxyServerHost)
        \o <<":">> \o PortText(o.ProxyServerPort)

\* C8: ClientSetConfig leaves the record unchanged and returns, for any
\* record, valid or not, the host:port join of the proxy server host and port
\* (an IPv6 host in brackets) and the record's values of the copied fields.
C8_PureProjection ==
    [][ret'.call = "ClientSetConfig" =>
          /\ o' = o
          /\ ret'.config.Address = ExpectedAddress
          /\ \A f \in {"AgentID", "AgentIdentifiers", "SyncInterval", "ProbeInterval",
                       "SyncIntervalCap", "ServiceAccountTokenPath", "WarnOnChannelLimit",
                       "SyncForever", "XfrChannelSize", "ServerCountSource"} :
                 ret'.config[f] = o[f]]_vars

C8_InvalidIPv6Projected ==
    /\ ret.call = "ClientSetConfig"
    /\ ret.config.Address = <<"[", ":", ":", "1", "]", ":", "-", "1">>

\* C9: registering the flags leaves every field of the record unchanged.
C9_FlagsKeepsFields == [][CallFlags => o' = o]_vars

\* C9 (what holds): registering the flags changes no field but XfrChannelSize.
C9_FlagsKeepsOtherFields ==
    [][CallFlags => \A f \in Fields \ {"XfrChannelSize"} : o'[f] = o[f]]_vars

\* C10: a record that was constructed, had its flags registered and none
\* parsed, validates, whatever PROXY_AGENT_ID and the filesystem are.
C10_DefaultsValid == (Validated /\ untouched /\ registered) => ret.err = Nil

C10_DefaultsValidated ==
    /\ Succeeded /\ untouched /\ registered
    /\ env # ""
    /\ fs["/a"] = "ENOENT" /\ fs["/b"] = "EACCES"

====
